---- MODULE Spec2Model ----
(***************************************************************************)
(* The five harvesters of VKO_digest_service as one state machine.         *)
(*                                                                         *)
(*   get_ach_latest_docs       ach_handler.py       one JSON request       *)
(*   get_latest_cbr_docs       cbr_handler.py       one RSS request        *)
(*   get_latest_roskazna_docs  roskazna_handler.py  one RSS request        *)
(*   get_latest_cbr_news       cbr_handler.py       paginated JSON         *)
(*   get_latest_kremlin_docs   kremlin_handler.py   paginated HTML         *)
(*                                                                         *)
(* One Python process calls the harvesters one after another.  A call of   *)
(* a one-request harvester is one action; a call of a paginated harvester  *)
(* is a start action followed by one action per iteration of its while     *)
(* loop, the source answering each request with a response chosen at that  *)
(* moment.  The LC_TIME locale is process-wide and outlives the calls.     *)
(***************************************************************************)
EXTENDS Integers, Sequences, FiniteSets, TLC

VARIABLES
    lc_time,          \* process-wide LC_TIME locale: "C" or "ru_RU"
    harvester,        \* the function being executed, "none" between calls
    pc,               \* "idle", "fetching" (inside the while loop), "done"
    start_date,       \* the cutoff argument of the call: [day, tod]
    locale_found,     \* ach: did locale.setlocale succeed in this call
    current_page,     \* current_page_number / current_page
    should_continue,  \* should_continue_pagination (cbr news)
    docs,             \* the list being collected; the return value at "done"
    raised,           \* the call ended by raising to its caller
    requests,         \* page indices requested in this call, in order
    responses,        \* what the source answered to each request, in order
    today,            \* datetime.today() as a date: the day the modules were loaded,
                      \* or a later day
    end_date          \* kremlin: the end_date of the call and whether the caller passed it

vars == <<lc_time, harvester, pc, start_date, locale_found, current_page,
          should_continue, docs, raised, requests, responses, today, end_date>>

-----------------------------------------------------------------------------
(* Bounds of the model.                                                    *)

\* items on one page
MaxItems == 2
\* items the source serves in one call, all pages together
MaxTotal == 3
\* page requests of one call that the model follows
MaxRequests == 3

-----------------------------------------------------------------------------
(* Values.                                                                 *)

\* Python None
None == "None"

\* calendar days; the cutoff is day 1, so 0 is before, 1 on and 2 after it
Days == {0, 1, 2}

\* time of day: 0 is midnight, 1 is later the same day
Tods == {0, 1}

\* a datetime object
Datetime(day, tod) == [day |-> day, tod |-> tod]

\* the cutoffs a caller may pass
Cutoffs == {Datetime(1, tod) : tod \in Tods}

\* a date as the source writes it: a form and the day it names
\*   "dBY_ru"   27 января 2026
\*   "dBY_en"   27 January 2026
\*   "rfc2822"  Mon, 29 Dec 2025 16:43:00 +0300
\*   "iso"      2026-01-27T10:00:00+03:00
\*   "garbage"  a non-empty string in no date format
\*   "empty"    the empty string
\*   "absent"   no such key / element
\*   "null"     the key is there and holds null
DateString(form, day) == [form |-> form, day |-> day]

Garbage == DateString("garbage", 0)
Empty == DateString("empty", 0)
Absent == DateString("absent", 0)
Null == DateString("null", 0)

\* a failed parse (ValueError)
ParseFailed == [day |-> -1, tod |-> -1]

\* the locales LC_TIME may hold
Locales == {"C", "ru_RU"}

\* the locale a Python process starts with: no module sets one on import
InitialLocale == "C"

\* the answer to one request: a body that was parsed into a list of
\* items, or the failure the request ended in
\*   "RequestException"  timeout, connection failure, non-2xx status
\*   "malformed body"    the body is not JSON / XML
Ok(items) == [status |-> "ok", body |-> items]
Failed(kind) == [status |-> kind, body |-> <<>>]
TransportError == Failed("RequestException")
BodyError == Failed("malformed body")
Failures == {TransportError, BodyError}

RECURSIVE SeqsUpTo(_, _)
\* all sequences over S of length at most n
SeqsUpTo(S, n) ==
    IF n = 0 THEN {<<>>}
    ELSE LET shorter == SeqsUpTo(S, n - 1)
         IN  shorter \cup {Append(s, x) : s \in {t \in shorter : Len(t) = n - 1}, x \in S}

-----------------------------------------------------------------------------
(* Date Parser.                                                            *)

\* datetime.strptime(date_string, "%d %B %Y") under the LC_TIME locale:
\* %B matches the month names of that locale only
strptime_dBY(date_string, locale) ==
    IF \/ date_string.form = "dBY_ru" /\ locale = "ru_RU"
       \/ date_string.form = "dBY_en" /\ locale = "C"
    THEN Datetime(date_string.day, 0)
    ELSE ParseFailed

\* datetime.strptime(date_string, "%a, %d %b %Y %H:%M:%S %z"): %a and %b
\* match the day and month abbreviations of the LC_TIME locale only
strptime_rfc2822(date_string, locale) ==
    IF date_string.form = "rfc2822" /\ locale = "C"
    THEN Datetime(date_string.day, 1)
    ELSE ParseFailed

\* datetime.fromisoformat(s.replace("Z", "+00:00")): no locale involved
fromisoformat(date_string) ==
    IF date_string.form = "iso"
    THEN Datetime(date_string.day, 1)
    ELSE ParseFailed

\* a >= b on datetime objects
DatetimeGE(a, b) == a.day > b.day \/ (a.day = b.day /\ a.tod >= b.tod)

\* datetime.date(): the calendar date
DateOf(dt) == dt.day

\* date.isoformat() / strftime("%Y-%m-%d"): the string "YYYY-MM-DD"
IsoDateString(day) == [type |-> "str YYYY-MM-DD", day |-> day]

\* a datetime object stored in a record
DatetimeObject(dt) == [type |-> "datetime", day |-> dt.day, tod |-> dt.tod]

-----------------------------------------------------------------------------
(* get_ach_latest_docs.                                                    *)

\* one element of result.items: DATE_CREATE and whether FILES.REPORT is
\* non-empty
AchItems ==
    [DATE_CREATE : {DateString(f, d) : f \in {"dBY_ru", "dBY_en"}, d \in Days}
                   \cup {Garbage, Absent},
     REPORT : BOOLEAN]

AchResponses == {Ok(items) : items \in SeqsUpTo(AchItems, MaxItems)} \cup Failures

\* the body of the for loop for one item: the documents it appends
AchDocument(document_item, cutoff, locale) ==
    LET document_date_string == document_item.DATE_CREATE
        parsed_document_date == strptime_dBY(document_date_string, locale)
    IN  IF document_date_string \in {Absent, Empty, Null} THEN <<>>
        ELSE IF parsed_document_date = ParseFailed THEN <<>>
        ELSE IF DatetimeGE(parsed_document_date, cutoff)
        THEN << [id |-> "ID", title |-> "NAME", meta |-> "PREVIEW_TEXT",
                 link |-> IF document_item.REPORT THEN "SRC" ELSE None,
                 pub_date |-> DatetimeObject(parsed_document_date)] >>
        ELSE <<>>

RECURSIVE AchDocuments(_, _, _)
\* the for loop over audit_items
AchDocuments(audit_items, cutoff, locale) ==
    IF audit_items = <<>> THEN <<>>
    ELSE AchDocument(Head(audit_items), cutoff, locale)
         \o AchDocuments(Tail(audit_items), cutoff, locale)

\* locale.setlocale(locale.LC_TIME, 'ru_RU.UTF-8'); locale.Error is logged
\* and the call goes on under the locale it found
SetLocale(found, before) == IF found THEN "ru_RU" ELSE before

\* what the call returns for a response
AchResult(response, cutoff, locale) ==
    IF response \in Failures THEN <<>>
    ELSE IF response.body = <<>> THEN <<>>
    ELSE AchDocuments(response.body, cutoff, locale)

get_ach_latest_docs ==
    /\ pc = "idle"
    /\ \E cutoff \in Cutoffs, found \in BOOLEAN, response \in AchResponses :
          /\ harvester' = "ach"
          /\ start_date' = cutoff
          /\ locale_found' = found
          /\ lc_time' = SetLocale(found, lc_time)
          /\ requests' = <<1>>
          /\ responses' = <<response>>
          /\ docs' = AchResult(response, cutoff, SetLocale(found, lc_time))
          /\ raised' = FALSE
          /\ pc' = "done"
    /\ UNCHANGED <<current_page, should_continue, today, end_date>>

-----------------------------------------------------------------------------
(* get_latest_cbr_docs.                                                    *)

\* the pubDate of an RSS item
RssDates == {DateString("rfc2822", d) : d \in Days} \cup {Garbage, Absent}

\* one <item> of the feed: the child element it lacks ("none": it has
\* title, link, guid and description) and its pubDate
CbrDocsItems == [lacks : {"none", "title", "link", "guid", "description"},
                 pubDate : RssDates]

CbrDocsResponses ==
    {Ok(items) : items \in SeqsUpTo(CbrDocsItems, MaxItems)} \cup Failures

\* the test of line 166 on two calendar dates
CbrDocsIsLater(publication_date, cutoff_date) == publication_date > cutoff_date

\* the body of the for loop for one item: the documents it appends.  Every
\* exception inside it is caught in the loop and the item is skipped.
CbrDocsDocument(item_element, cutoff, locale) ==
    LET parsed_publication_datetime == strptime_rfc2822(item_element.pubDate, locale)
    IN  IF item_element.lacks \in {"title", "link"} \/ item_element.pubDate = Absent
        THEN <<>>
        ELSE IF parsed_publication_datetime = ParseFailed THEN <<>>
        ELSE IF CbrDocsIsLater(DateOf(parsed_publication_datetime), DateOf(cutoff))
        THEN IF item_element.lacks = "guid"
             THEN <<>>   \* document_guid.text on None: AttributeError, skipped
             ELSE << [id |-> "guid", title |-> "title", link |-> "link",
                      meta |-> IF item_element.lacks = "description"
                               THEN "" ELSE "description",
                      pub_date |-> IsoDateString(DateOf(parsed_publication_datetime))] >>
        ELSE <<>>

RECURSIVE CbrDocsDocuments(_, _, _)
\* the for loop over rss_items
CbrDocsDocuments(rss_items, cutoff, locale) ==
    IF rss_items = <<>> THEN <<>>
    ELSE CbrDocsDocument(Head(rss_items), cutoff, locale)
         \o CbrDocsDocuments(Tail(rss_items), cutoff, locale)

\* ET.ParseError is logged and not raised again
CbrDocsRaisesOnlyTransport(response) == response = TransportError

\* a failed request or an unparsable feed is logged and raised again
CbrDocsRaises(response) == response \in Failures

get_latest_cbr_docs ==
    /\ pc = "idle"
    /\ \E cutoff \in Cutoffs, response \in CbrDocsResponses :
          /\ harvester' = "cbr_docs"
          /\ start_date' = cutoff
          /\ requests' = <<1>>
          /\ responses' = <<response>>
          /\ raised' = CbrDocsRaises(response)
          /\ docs' = IF CbrDocsRaises(response) THEN <<>>
                     ELSE CbrDocsDocuments(response.body, cutoff, lc_time)
          /\ pc' = "done"
    /\ UNCHANGED <<lc_time, locale_found, current_page, should_continue, today, end_date>>

-----------------------------------------------------------------------------
(* get_latest_roskazna_docs.                                               *)

\* one <item> of the channel
RoskaznaItems == [lacks : {"none", "title", "link", "description"},
                  pubDate : RssDates]

RoskaznaResponses ==
    {Ok(items) : items \in SeqsUpTo(RoskaznaItems, MaxItems)} \cup Failures

\* parse_rss_date: the parsed datetime, or ValueError raised again
parse_rss_date(date_string, locale) == strptime_rfc2822(date_string, locale)

\* the test written with <=: an item of the cutoff day is rejected too
RoskaznaIsOlderOrEqual(publication_date, cutoff_date) == publication_date <= cutoff_date

\* the test of line 117 on two calendar dates: the item is rejected
RoskaznaIsOlder(publication_date, cutoff_date) == publication_date < cutoff_date

\* extract_news_item_data: the documents the caller appends (None: nothing).
\* Every exception inside it is caught and gives None.
extract_news_item_data(news_item_element, cutoff, locale) ==
    LET publication_date_string == news_item_element.pubDate
        publication_datetime == parse_rss_date(publication_date_string, locale)
    IN  IF publication_date_string \in {Absent, Empty} THEN <<>>
        ELSE IF publication_datetime = ParseFailed THEN <<>>
        ELSE IF RoskaznaIsOlder(DateOf(publication_datetime), DateOf(cutoff)) THEN <<>>
        ELSE IF news_item_element.lacks = "title"
        THEN <<>>   \* clean_cdata(None): AttributeError
        ELSE IF news_item_element.lacks = "description"
        THEN <<>>   \* news_description is never bound: UnboundLocalError
        ELSE << [title |-> "title",
                 link |-> IF news_item_element.lacks = "link" THEN None ELSE "link",
                 meta |-> "description",
                 pub_date |-> IsoDateString(DateOf(publication_datetime))] >>

RECURSIVE RoskaznaDocuments(_, _, _)
\* the for loop over news_items_elements
RoskaznaDocuments(news_items_elements, cutoff, locale) ==
    IF news_items_elements = <<>> THEN <<>>
    ELSE extract_news_item_data(Head(news_items_elements), cutoff, locale)
         \o RoskaznaDocuments(Tail(news_items_elements), cutoff, locale)

\* a failed request or an unparsable feed is logged and raised again
RoskaznaRaises(response) == response \in Failures

get_latest_roskazna_docs ==
    /\ pc = "idle"
    /\ \E cutoff \in Cutoffs, response \in RoskaznaResponses :
          /\ harvester' = "roskazna"
          /\ start_date' = cutoff
          /\ requests' = <<1>>
          /\ responses' = <<response>>
          /\ raised' = RoskaznaRaises(response)
          /\ docs' = IF RoskaznaRaises(response) THEN <<>>
                     ELSE RoskaznaDocuments(response.body, cutoff, lc_time)
          /\ pc' = "done"
    /\ UNCHANGED <<lc_time, locale_found, current_page, should_continue, today, end_date>>

-----------------------------------------------------------------------------
(* Paginated sources.                                                      *)

RECURSIVE TotalServed(_)
\* the number of items the source has served in the answers so far
TotalServed(answers) ==
    IF answers = <<>> THEN 0
    ELSE Len(Head(answers).body) + TotalServed(Tail(answers))

\* the pages over Items the source can still serve after `answers`
PagesLeft(Items, answers) ==
    LET room == MaxTotal - TotalServed(answers)
    IN  SeqsUpTo(Items, IF room < MaxItems THEN room ELSE MaxItems)

\* the handler of a failed request goes round the loop again
PcAfterRequestErrorRetries == "fetching"

\* where the loop is after the handler of a failed request or of an
\* undecodable body: break
PcAfterRequestError == "done"

\* the page counter is left where it was
NextPageStays(page) == page

\* current_page_number += 1 / current_page += 1
NextPage(page) == page + 1

\* the documents of the page are put in front of the list
CollectInFront(collected, appended) == appended \o collected

\* the list after the .append calls of one page
Collect(collected, appended) == collected \o appended

-----------------------------------------------------------------------------
(* get_latest_cbr_news.                                                    *)

\* one object of the JSON list: its DT
CbrNewsItems == [DT : {DateString("iso", d) : d \in Days} \cup {Garbage, Absent, Null}]

\* the test written with <=: an item of the cutoff day ends the harvest too
CbrNewsIsOlderOrEqual(publication_date, cutoff_date) == publication_date <= cutoff_date

\* the test of line 311 on two calendar dates: the item ends the harvest
CbrNewsIsOlder(publication_date, cutoff_date) == publication_date < cutoff_date

\* the dictionary of lines 328-334
CbrNewsDocument(publication_datetime) ==
    [id |-> "doc_htm", title |-> "name_doc", link |-> "https://cbr.ru/press/event/?id=doc_htm",
     meta |-> "", pub_date |-> IsoDateString(DateOf(publication_datetime))]

\* how the for loop over json_data ends
\*   "exhausted"  every item was appended
\*   "older"      an item before the cutoff: should_continue_pagination = False, break
\*   "caught"     KeyError (no DT) or ValueError (unparsable DT): the handler
\*                of line 345 breaks the while loop
\*   "uncaught"   AttributeError (DT is null): no handler, the call raises
CbrNewsItemEnd(news_item, cutoff) ==
    IF news_item.DT = Absent THEN "caught"
    ELSE IF news_item.DT = Null THEN "uncaught"
    ELSE IF fromisoformat(news_item.DT) = ParseFailed THEN "caught"
    ELSE IF CbrNewsIsOlder(DateOf(fromisoformat(news_item.DT)), DateOf(cutoff)) THEN "older"
    ELSE "appended"

RECURSIVE CbrNewsScanWholePage(_, _)
\* the for loop with continue in the place of the break of line 313: an
\* item before the cutoff is passed over and the rest of the page is read
CbrNewsScanWholePage(json_data, cutoff) ==
    IF json_data = <<>> THEN [appended |-> <<>>, end |-> "exhausted"]
    ELSE LET how == CbrNewsItemEnd(Head(json_data), cutoff)
             rest == CbrNewsScanWholePage(Tail(json_data), cutoff)
         IN  IF how = "appended"
             THEN [appended |-> <<CbrNewsDocument(fromisoformat(Head(json_data).DT))>>
                                \o rest.appended,
                   end |-> rest.end]
             ELSE IF how = "older"
             THEN [appended |-> rest.appended,
                   end |-> IF rest.end = "exhausted" THEN "older" ELSE rest.end]
             ELSE [appended |-> <<>>, end |-> how]

RECURSIVE CbrNewsScan(_, _)
\* the for loop over json_data: the documents appended and how it ended
CbrNewsScan(json_data, cutoff) ==
    IF json_data = <<>> THEN [appended |-> <<>>, end |-> "exhausted"]
    ELSE LET how == CbrNewsItemEnd(Head(json_data), cutoff)
             rest == CbrNewsScan(Tail(json_data), cutoff)
         IN  IF how = "appended"
             THEN [appended |-> <<CbrNewsDocument(fromisoformat(Head(json_data).DT))>>
                                \o rest.appended,
                   end |-> rest.end]
             ELSE [appended |-> <<>>, end |-> how]

\* the break of line 313 leaves only the for loop; the while loop ends
\* on the flag
ShouldContinuePaginationKeepsFlag(end) == TRUE

\* should_continue_pagination after the for loop: cleared at line 312 when
\* an item before the cutoff ended it
ShouldContinuePagination(end) == end # "older"

\* the test of line 303 is left out
CbrNewsPageIsEmptyNoTest(json_data) == FALSE

\* line 303: the page holds no data
CbrNewsPageIsEmpty(json_data) == json_data = <<>>

\* the call starts: the locals of lines 289-291
get_latest_cbr_news ==
    /\ pc = "idle"
    /\ \E cutoff \in Cutoffs : start_date' = cutoff
    /\ harvester' = "cbr_news"
    /\ pc' = "fetching"
    /\ current_page' = 0
    /\ should_continue' = TRUE
    /\ docs' = <<>>
    /\ UNCHANGED <<lc_time, locale_found, raised, requests, responses, today, end_date>>

\* one iteration of the while loop, with the loop test that follows it
cbr_news_page ==
    /\ harvester = "cbr_news"
    /\ pc = "fetching"
    /\ Len(requests) < MaxRequests
    /\ \E response \in {Ok(p) : p \in PagesLeft(CbrNewsItems, responses)} \cup Failures :
          LET scan == CbrNewsScan(response.body, start_date)
          IN  /\ requests' = Append(requests, current_page)
              /\ responses' = Append(responses, response)
              /\ IF response \in Failures
                 THEN /\ pc' = PcAfterRequestError
                      /\ UNCHANGED <<docs, raised, current_page, should_continue>>
                 ELSE IF CbrNewsPageIsEmpty(response.body)
                 THEN /\ pc' = "done"
                      /\ UNCHANGED <<docs, raised, current_page, should_continue>>
                 ELSE IF scan.end = "uncaught"
                 THEN /\ pc' = "done"
                      /\ raised' = TRUE
                      /\ docs' = <<>>
                      /\ UNCHANGED <<current_page, should_continue>>
                 ELSE IF scan.end = "caught"
                 THEN /\ pc' = "done"
                      /\ docs' = Collect(docs, scan.appended)
                      /\ UNCHANGED <<raised, current_page, should_continue>>
                 ELSE /\ docs' = Collect(docs, scan.appended)
                      /\ should_continue' = ShouldContinuePagination(scan.end)
                      /\ current_page' = NextPage(current_page)
                      /\ pc' = IF ShouldContinuePagination(scan.end)
                               THEN "fetching" ELSE "done"
                      /\ UNCHANGED raised
    /\ UNCHANGED <<lc_time, harvester, start_date, locale_found, today, end_date>>

-----------------------------------------------------------------------------
(* get_latest_kremlin_docs.                                                *)

\* the text of a <time> element and its datetime attribute
DateText(day) == [type |-> "str date text", day |-> day]
EmptyString == [type |-> "str empty", day |-> -1]

\* one div.hentry of the listing: what it lacks ("title": no h3, "href": no
\* link or no href, "time": no <time>, "none": nothing) and the day its
\* <time> names
KremlinEntries ==
    {[lacks |-> "none", day |-> d] : d \in Days}
    \cup {[lacks |-> l, day |-> 0] : l \in {"title", "href", "time"}}

\* the page has no div.events
NoContainer == Failed("no events container")

\* parse_single_document_entry: the documents the caller appends (None:
\* nothing)
parse_single_document_entry(document_entry) ==
    IF document_entry.lacks \in {"title", "href"} THEN <<>>
    ELSE << [title |-> "title", meta |-> "meta",
             date |-> IF document_entry.lacks = "time" THEN EmptyString
                      ELSE DateText(document_entry.day),
             datetime |-> IF document_entry.lacks = "time" THEN EmptyString
                          ELSE IsoDateString(document_entry.day),
             link |-> "http://kremlin.ru/href"] >>

RECURSIVE KremlinDocumentsUntilBroken(_)
\* the for loop left at the first entry that gives no document
KremlinDocumentsUntilBroken(document_entries) ==
    IF document_entries = <<>> THEN <<>>
    ELSE IF parse_single_document_entry(Head(document_entries)) = <<>> THEN <<>>
    ELSE parse_single_document_entry(Head(document_entries))
         \o KremlinDocumentsUntilBroken(Tail(document_entries))

RECURSIVE KremlinDocuments(_)
\* the for loop over document_entries
KremlinDocuments(document_entries) ==
    IF document_entries = <<>> THEN <<>>
    ELSE parse_single_document_entry(Head(document_entries))
         \o KremlinDocuments(Tail(document_entries))

\* lines 242 and 249: no container, or no entry in it
KremlinPageIsEmpty(response) == response = NoContainer \/ response.body = <<>>

\* datetime.today() on the day the module was loaded, and on any day after it
LoadDay == "load day"
LaterDay == "a later day"

\* the default of the end_date parameter: the expression in the def
\* statement of line 181 is evaluated once, when the module is loaded
KremlinDefaultEndDate == LoadDay

\* the end_date a call works with: what the caller passed, else the default
KremlinEndDate(passed, day) ==
    [passed |-> passed, day |-> IF passed THEN day ELSE KremlinDefaultEndDate]

\* no end_date: outside a kremlin call
NoEndDate == [passed |-> FALSE, day |-> LoadDay]

\* the call starts: the parameters and the locals of lines 205-206; a
\* caller that passes end_date passes the date of the call
get_latest_kremlin_docs ==
    /\ pc = "idle"
    /\ \E cutoff \in Cutoffs : start_date' = cutoff
    /\ \E passed \in BOOLEAN : end_date' = KremlinEndDate(passed, today)
    /\ harvester' = "kremlin"
    /\ pc' = "fetching"
    /\ current_page' = 1
    /\ docs' = <<>>
    /\ UNCHANGED <<lc_time, locale_found, should_continue, raised, requests, responses,
                   today>>

\* one iteration of the while True loop
kremlin_page ==
    /\ harvester = "kremlin"
    /\ pc = "fetching"
    /\ Len(requests) < MaxRequests
    /\ \E response \in {Ok(p) : p \in PagesLeft(KremlinEntries, responses)}
                       \cup Failures \cup {NoContainer} :
          /\ requests' = Append(requests, current_page)
          /\ responses' = Append(responses, response)
          /\ IF response \in Failures
             THEN /\ pc' = PcAfterRequestError
                  /\ UNCHANGED <<docs, current_page>>
             ELSE IF KremlinPageIsEmpty(response)
             THEN /\ pc' = "done"
                  /\ UNCHANGED <<docs, current_page>>
             ELSE /\ docs' = Collect(docs, KremlinDocuments(response.body))
                  /\ current_page' = NextPage(current_page)
                  /\ pc' = "fetching"
    /\ UNCHANGED <<lc_time, harvester, start_date, locale_found, should_continue, raised,
                   today, end_date>>

-----------------------------------------------------------------------------
(* The process.                                                            *)

\* the caller takes the outcome; the locals of the call are gone
Return ==
    /\ pc = "done"
    /\ harvester' = "none"
    /\ pc' = "idle"
    /\ start_date' = Datetime(1, 0)
    /\ locale_found' = FALSE
    /\ current_page' = 0
    /\ should_continue' = TRUE
    /\ docs' = <<>>
    /\ raised' = FALSE
    /\ requests' = <<>>
    /\ responses' = <<>>
    /\ end_date' = NoEndDate
    /\ UNCHANGED <<lc_time, today>>

\* the date changes while the process waits for its next call
Midnight ==
    /\ pc = "idle"
    /\ today' = LaterDay
    /\ UNCHANGED <<lc_time, harvester, pc, start_date, locale_found, current_page,
                   should_continue, docs, raised, requests, responses, end_date>>

Init ==
    /\ lc_time = InitialLocale
    /\ harvester = "none"
    /\ pc = "idle"
    /\ start_date = Datetime(1, 0)
    /\ locale_found = FALSE
    /\ current_page = 0
    /\ should_continue = TRUE
    /\ docs = <<>>
    /\ raised = FALSE
    /\ requests = <<>>
    /\ responses = <<>>
    /\ today = LoadDay
    /\ end_date = NoEndDate

Next ==
    \/ get_ach_latest_docs
    \/ get_latest_cbr_docs
    \/ get_latest_roskazna_docs
    \/ get_latest_cbr_news
    \/ cbr_news_page
    \/ get_latest_kremlin_docs
    \/ kremlin_page
    \/ Return
    \/ Midnight

Spec == Init /\ [][Next]_vars

-----------------------------------------------------------------------------
(* What the caller of a harvester observes.                                *)

\* the call has ended
Done == pc = "done"

\* the call has ended and handed a list to its caller
Returned == pc = "done" /\ ~raised

\* the outcome of a call as its caller sees it: a list, or an exception
Outcome == [raised |-> raised, list |-> docs]

\* the field that carries a document's publication date: pub_date, and for
\* the kremlin records, which have none, the datetime attribute
HasPublicationDate(doc) ==
    \/ "pub_date" \in DOMAIN doc
    \/ "datetime" \in DOMAIN doc /\ doc.datetime # EmptyString

PublicationDay(doc) ==
    IF "pub_date" \in DOMAIN doc THEN doc.pub_date.day ELSE doc.datetime.day

\* the cutoff with its time of day dropped
AtMidnight(dt) == Datetime(dt.day, 0)

\* page k of the call holds an item dated before the cutoff's calendar date
HasOlderItem(k) ==
    \E i \in DOMAIN responses[k].body :
        LET dt == fromisoformat(responses[k].body[i].DT)
        IN  dt # ParseFailed /\ DateOf(dt) < DateOf(start_date)

\* every item of the page but one has a parsable date on or after the
\* cutoff, and that one has an unparsable date string
OneUnparsableRestFresh(page) ==
    /\ Cardinality({i \in DOMAIN page : page[i].DT = Garbage}) = 1
    /\ \A i \in DOMAIN page :
          \/ page[i].DT = Garbage
          \/ /\ fromisoformat(page[i].DT) # ParseFailed
             /\ DateOf(fromisoformat(page[i].DT)) >= DateOf(start_date)

-----------------------------------------------------------------------------
(* Claims.                                                                 *)

\* C1: every document a harvester returns has a publication date that is
\* present and whose calendar date is on or after the cutoff's.
C1_CutoffInvariant ==
    Returned =>
        \A i \in DOMAIN docs :
            /\ HasPublicationDate(docs[i])
            /\ PublicationDay(docs[i]) >= DateOf(start_date)

\* C2: in get_latest_cbr_news a page with one unparsable date loses only
\* that item: the other items of the page are returned and the call goes
\* on to request the next page.
C2_UnparsableItemIsolated ==
    (/\ harvester = "cbr_news"
     /\ Len(responses) >= 1
     /\ responses[1].status = "ok"
     /\ Len(responses[1].body) >= 2
     /\ OneUnparsableRestFresh(responses[1].body))
    => /\ ~raised
       /\ Len(docs) >= Len(responses[1].body) - 1
       /\ Done => Len(requests) >= 2

\* C3: in the paginated harvesters, page 1 answered and page 2 failing with
\* a transport error gives an outcome that holds page 1's documents and a
\* failure signal.
C3_PartialResultWithFailureSignal ==
    (/\ harvester \in {"cbr_news", "kremlin"}
     /\ Done
     /\ Len(responses) = 2
     /\ responses[1].status = "ok"
     /\ responses[2] = TransportError)
    => /\ Outcome.list = IF harvester = "cbr_news"
                         THEN CbrNewsScan(responses[1].body, start_date).appended
                         ELSE KremlinDocuments(responses[1].body)
       /\ Outcome.raised

\* C4: an outage on the first request never ends in a plain list.
C4_OutageIsSurfaced ==
    (Done /\ Len(responses) = 1 /\ responses[1] \in Failures) => Outcome.raised

\* C5: in get_latest_cbr_news the first fetched page k that holds an item
\* dated before the cutoff is the last one requested: exactly k requests,
\* for the pages 0 .. k-1, and the loop is over.
C5_StopsAtFirstOlderPage ==
    harvester = "cbr_news" =>
        \A k \in DOMAIN responses :
            HasOlderItem(k) =>
                /\ Done
                /\ Len(requests) = k
                /\ \A j \in 1..k : requests[j] = j - 1

\* C5 witness: three pages were fetched, the third holds the item before
\* the cutoff, and the for loop reached it
C5_Witness ==
    /\ harvester = "cbr_news"
    /\ Len(responses) = 3
    /\ HasOlderItem(3)
    /\ ~should_continue
    /\ Len(docs) >= 2

\* C6: a first page with zero items ends the call at once: an empty list,
\* no exception, one request.
C6_EmptyFirstPage ==
    (/\ Len(responses) >= 1
     /\ \/ responses[1] = Ok(<<>>)
        \/ harvester = "kremlin" /\ responses[1] = NoContainer)
    => /\ Returned
       /\ docs = <<>>
       /\ Len(requests) = 1

\* C6 witness: the paginated news harvester got an empty first page
C6_Witness ==
    /\ harvester = "cbr_news"
    /\ Done
    /\ responses = <<Ok(<<>>)>>

\* C7: the pagination loop is over once a page-count cap is reached,
\* whatever the source serves; the cap tried is the number of requests the
\* model follows.
C7_RequestsCapped ==
    (harvester \in {"cbr_news", "kremlin"} /\ Len(requests) >= MaxRequests) => Done

\* C8: the list a feed harvester returns is the one it returns in a fresh
\* process, whatever harvest ran before it.
C8_NoInterference ==
    /\ (harvester = "roskazna" /\ Returned)
       => docs = RoskaznaDocuments(responses[1].body, start_date, InitialLocale)
    /\ (harvester = "cbr_docs" /\ Returned)
       => docs = CbrDocsDocuments(responses[1].body, start_date, InitialLocale)

\* C9: every returned document has exactly the keys id, title, meta, link,
\* pub_date, and pub_date is a YYYY-MM-DD string.
C9_CommonRecordShape ==
    Returned =>
        \A i \in DOMAIN docs :
            /\ DOMAIN docs[i] = {"id", "title", "meta", "link", "pub_date"}
            /\ docs[i].pub_date.type = "str YYYY-MM-DD"

\* C10: the list returned depends on the cutoff's calendar date only, not
\* on its time of day.
C10_DateOnlyCutoff ==
    /\ (harvester = "ach" /\ Returned)
       => docs = AchResult(responses[1], AtMidnight(start_date), lc_time)
    /\ (harvester = "cbr_docs" /\ Returned)
       => docs = CbrDocsDocuments(responses[1].body, AtMidnight(start_date), lc_time)
    /\ (harvester = "roskazna" /\ Returned)
       => docs = RoskaznaDocuments(responses[1].body, AtMidnight(start_date), lc_time)
    /\ harvester = "cbr_news"
       => \A k \in DOMAIN responses :
             CbrNewsScan(responses[k].body, start_date)
                 = CbrNewsScan(responses[k].body, AtMidnight(start_date))

-----------------------------------------------------------------------------
(* Claims C11 - C20.                                                       *)

\* the items of all fetched pages, in fetch order
RECURSIVE FetchedItems(_)
FetchedItems(answers) ==
    IF answers = <<>> THEN <<>>
    ELSE Head(answers).body \o FetchedItems(Tail(answers))

\* the item, harvested alone by the harvester of the call, gives a document
QualifiesAlone(item) ==
    CASE harvester = "ach" -> AchDocuments(<<item>>, start_date, lc_time) # <<>>
      [] harvester = "cbr_docs" -> CbrDocsDocuments(<<item>>, start_date, lc_time) # <<>>
      [] harvester = "roskazna" -> RoskaznaDocuments(<<item>>, start_date, lc_time) # <<>>
      [] harvester = "cbr_news" -> CbrNewsScan(<<item>>, start_date).appended # <<>>
      [] OTHER -> FALSE

\* every item of the fetched pages has a date the harvester can read
AllDatesReadable ==
    harvester = "cbr_news" =>
        \A i \in DOMAIN FetchedItems(responses) :
            fromisoformat(FetchedItems(responses)[i].DT) # ParseFailed

\* C11: no early exit within a page: in the harvesters that test every item
\* against the cutoff, every item of a fetched page that qualifies is
\* returned, also when an item before it on the page is older than the
\* cutoff.
C11_NoEarlyExitWithinPage ==
    (/\ harvester \in {"ach", "cbr_docs", "roskazna", "cbr_news"}
     /\ Returned
     /\ AllDatesReadable)
    => Len(docs) = Cardinality({i \in DOMAIN FetchedItems(responses) :
                                   QualifiesAlone(FetchedItems(responses)[i])})

\* an RSS item with nothing wrong: all child elements, a pubDate the
\* parser of this process reads, and a day after the cutoff's
SoundRssItem(item) ==
    /\ item.lacks = "none"
    /\ strptime_rfc2822(item.pubDate, lc_time) # ParseFailed
    /\ DateOf(strptime_rfc2822(item.pubDate, lc_time)) > DateOf(start_date)

\* C12: the RSS harvesters raise on a failed request or a malformed feed
\* and return no list then; a failure inside one item never raises and
\* drops that item only, so every sound item of the feed is returned.
C12_FeedFailurePropagates ==
    (harvester \in {"cbr_docs", "roskazna"} /\ Done) =>
        /\ raised <=> responses[1] \in Failures
        /\ raised => docs = <<>>
        /\ ~raised =>
              /\ Len(docs) <= Len(responses[1].body)
              /\ Len(docs) >= Cardinality({i \in DOMAIN responses[1].body :
                                              SoundRssItem(responses[1].body[i])})

\* C12 witness: the feed of the Bank of Russia could not be parsed and the
\* call raised
C12_Witness ==
    /\ harvester = "cbr_docs"
    /\ Done
    /\ raised
    /\ responses = <<BodyError>>

\* the news item carries no publication date: no DT key, or DT is null
CbrNewsDateAbsent(item) == item.DT \in {Absent, Null}

\* every fetched news item either carries no date or is dated on or after
\* the cutoff, and at least one carries none
OnlyAbsentOrFresh ==
    /\ \E i \in DOMAIN FetchedItems(responses) :
          CbrNewsDateAbsent(FetchedItems(responses)[i])
    /\ \A i \in DOMAIN FetchedItems(responses) :
          \/ CbrNewsDateAbsent(FetchedItems(responses)[i])
          \/ QualifiesAlone(FetchedItems(responses)[i])

\* C13: an item without a publication date is filtered out and nothing
\* else happens: no returned record lacks a date, no exception reaches the
\* caller when every request was answered, and in get_latest_cbr_news the
\* other items are returned and the loop is not ended by the item.
C13_AbsentDateFiltered ==
    /\ Returned => \A i \in DOMAIN docs : HasPublicationDate(docs[i])
    /\ (Done /\ \A k \in DOMAIN responses : responses[k] \notin Failures) => ~raised
    /\ (harvester = "cbr_news" /\ Done /\ OnlyAbsentOrFresh)
       => /\ Len(docs) = Cardinality({i \in DOMAIN FetchedItems(responses) :
                                         QualifiesAlone(FetchedItems(responses)[i])})
          /\ responses[Len(responses)].body = <<>>

\* an RSS item with nothing wrong but, possibly, its description
SoundButForMeta(item) ==
    /\ item.lacks \in {"none", "description"}
    /\ strptime_rfc2822(item.pubDate, lc_time) # ParseFailed
    /\ DateOf(strptime_rfc2822(item.pubDate, lc_time)) > DateOf(start_date)

\* C14: meta never makes an item fail: an RSS item with a valid date after
\* the cutoff is returned whether or not it has a description, and with
\* meta "" when it has none.
C14_MetaNeverFailsItem ==
    (harvester \in {"cbr_docs", "roskazna"} /\ Returned) =>
        /\ Len(docs) >= Cardinality({i \in DOMAIN responses[1].body :
                                        SoundButForMeta(responses[1].body[i])})
        /\ (\A i \in DOMAIN responses[1].body : responses[1].body[i].lacks = "description")
           => \A j \in DOMAIN docs : docs[j].meta = ""

\* a cutoff before every day a source can name
EarliestCutoff == Datetime(-1, 0)

RECURSIVE CbrNewsImages(_)
\* the documents the news items give when none is filtered, in item order
CbrNewsImages(items) ==
    IF items = <<>> THEN <<>>
    ELSE (IF fromisoformat(Head(items).DT) = ParseFailed THEN <<>>
          ELSE <<CbrNewsDocument(fromisoformat(Head(items).DT))>>)
         \o CbrNewsImages(Tail(items))

\* the documents of all fetched items in fetch order, no date filter applied
Images ==
    CASE harvester = "ach" -> AchDocuments(FetchedItems(responses), EarliestCutoff, lc_time)
      [] harvester = "cbr_docs" -> CbrDocsDocuments(FetchedItems(responses), EarliestCutoff, lc_time)
      [] harvester = "roskazna" -> RoskaznaDocuments(FetchedItems(responses), EarliestCutoff, lc_time)
      [] harvester = "cbr_news" -> CbrNewsImages(FetchedItems(responses))
      [] harvester = "kremlin" -> KremlinDocuments(FetchedItems(responses))
      [] OTHER -> <<>>

RECURSIVE IsSubsequence(_, _)
\* s is t with some elements left out, order kept
IsSubsequence(s, t) ==
    IF s = <<>> THEN TRUE
    ELSE IF t = <<>> THEN FALSE
    ELSE IF Head(s) = Head(t) THEN IsSubsequence(Tail(s), Tail(t))
    ELSE IsSubsequence(s, Tail(t))

\* C15: the list a harvester holds, and returns, is a subsequence of the
\* documents of the fetched pages in fetch order: nothing is reordered or
\* duplicated.
C15_ResultInPageOrder ==
    ~raised => IsSubsequence(docs, Images)

\* C15 witness: a returned news list whose two documents come from two
\* pages and differ
C15_Witness ==
    /\ harvester = "cbr_news"
    /\ Returned
    /\ Len(responses) >= 2
    /\ Len(responses[1].body) = 1
    /\ Len(docs) = 2
    /\ docs[1] # docs[2]

\* C16: when the ru_RU.UTF-8 locale is not available, get_ach_latest_docs
\* fails with a configuration error before it issues any request.
C16_MissingLocaleFailsAtStart ==
    (harvester = "ach" /\ Done /\ ~locale_found) => (raised /\ requests = <<>>)

\* a page after which the loop has no reason to stop: answered, not empty,
\* and for the news every DT readable and none before the cutoff's date
CleanPage(response) ==
    /\ response.status = "ok"
    /\ response.body # <<>>
    /\ harvester = "cbr_news" =>
          \A i \in DOMAIN response.body :
              /\ fromisoformat(response.body[i].DT) # ParseFailed
              /\ DateOf(fromisoformat(response.body[i].DT)) >= DateOf(start_date)

\* a reason to leave the loop: a failed request or undecodable body, an
\* empty page or a missing container, and for the news an item before the
\* cutoff or an item whose DT raises
StopReason(response) ==
    \/ response \in Failures
    \/ response = NoContainer /\ harvester = "kremlin"
    \/ response.status = "ok" /\ response.body = <<>>
    \/ /\ harvester = "cbr_news"
       /\ \E i \in DOMAIN response.body :
             \/ fromisoformat(response.body[i].DT) = ParseFailed
             \/ DateOf(fromisoformat(response.body[i].DT)) < DateOf(start_date)

AchTrailingEdgeFresh ==
    /\ responses[1].status = "ok"
    /\ responses[1].body # <<>>
    /\ LET last == responses[1].body[Len(responses[1].body)]
       IN  /\ strptime_dBY(last.DATE_CREATE, lc_time) # ParseFailed
           /\ DatetimeGE(strptime_dBY(last.DATE_CREATE, lc_time), start_date)

\* C18: get_ach_latest_docs requests the next page when the last item of
\* the fetched page is dated on or after the cutoff and the page is not
\* empty.
C18_AchTrailingEdgePagination ==
    (harvester = "ach" /\ Done /\ AchTrailingEdgeFresh) => Len(requests) >= 2

\* C19: in the paginated harvesters a failed page request (request error or
\* undecodable body) is the last request of the call: the loop is over the
\* moment it is answered, and no request follows it.
C19_FailureIsFatalNoRetry ==
    harvester \in {"cbr_news", "kremlin"} =>
        \A k \in DOMAIN responses :
            responses[k] \in Failures =>
                /\ k = Len(responses)
                /\ Len(requests) = k
                /\ Done

\* C19 witness: the second page request of a call fails after a first page
\* that was harvested
C19_Witness ==
    /\ harvester \in {"cbr_news", "kremlin"}
    /\ Len(responses) = 2
    /\ responses[1].body # <<>>
    /\ responses[2] \in Failures
    /\ docs # <<>>

\* the page parameter of a kremlin request: sent only beyond the first page
KremlinPageParam(page) == IF page > 1 THEN {page} ELSE {}

\* the index of the first page of a paginated harvester
FirstPage == IF harvester = "cbr_news" THEN 0 ELSE 1

\* C20: within one call of a paginated harvester the j-th request asks for
\* the j-th page counted from the first one (0 for the news, 1 for kremlin,
\* whose first page carries no page parameter), every request issued has
\* been answered before the next, and the cursor stands on the last page
\* requested or on the one after it.
C20_CursorDiscipline ==
    harvester \in {"cbr_news", "kremlin"} =>
        /\ Len(requests) = Len(responses)
        /\ \A j \in DOMAIN requests : requests[j] = FirstPage + j - 1
        /\ harvester = "kremlin" =>
              \A j \in DOMAIN requests :
                  KremlinPageParam(requests[j]) = IF j = 1 THEN {} ELSE {j}
        /\ current_page \in {FirstPage + Len(requests) - 1, FirstPage + Len(requests)}
        /\ pc = "fetching" => current_page = FirstPage + Len(requests)

\* C20 witness: kremlin has requested pages 1, 2 and 3 one after the other
C20_Witness ==
    /\ harvester = "kremlin"
    /\ requests = <<1, 2, 3>>
    /\ Len(responses) = 3

-----------------------------------------------------------------------------
(* Claims C21 - C27.                                                       *)

\* C21: a call of get_latest_kremlin_docs that passes no end_date asks for
\* the window that ends on the day of the call.
C21_WindowEndsAtCall ==
    (harvester = "kremlin" /\ requests # <<>> /\ ~end_date.passed) => end_date.day = today

\* an RSS item of the Bank of Russia feed that has title, link and a
\* pubDate that reads as a date later than the cutoff's, and no guid
SoundButForGuid(item) ==
    /\ item.lacks = "guid"
    /\ strptime_rfc2822(item.pubDate, lc_time) # ParseFailed
    /\ DateOf(strptime_rfc2822(item.pubDate, lc_time)) > DateOf(start_date)

\* C22: get_latest_cbr_docs returns an item that has title, link and a
\* pubDate later than the cutoff but no guid, as a document with id null.
C22_ItemWithoutGuidReturned ==
    (harvester = "cbr_docs" /\ Returned) =>
        Cardinality({j \in DOMAIN docs : docs[j].id = None})
            = Cardinality({i \in DOMAIN responses[1].body :
                              SoundButForGuid(responses[1].body[i])})

\* an RSS item with title, link and a pubDate that reads as a date strictly
\* later than the cutoff's
TitledLinkedAndLater(item) ==
    /\ item.lacks \notin {"title", "link"}
    /\ strptime_rfc2822(item.pubDate, lc_time) # ParseFailed
    /\ DateOf(strptime_rfc2822(item.pubDate, lc_time)) > DateOf(start_date)

\* C23: get_latest_cbr_docs returns exactly the items that have title, link
\* and a parseable pubDate strictly later than the cutoff's date, and so
\* never a document of the cutoff date itself.
C23_StrictBoundaryExactly ==
    (harvester = "cbr_docs" /\ Returned) =>
        /\ Len(docs) = Cardinality({i \in DOMAIN responses[1].body :
                                       TitledLinkedAndLater(responses[1].body[i])})
        /\ \A j \in DOMAIN docs : docs[j].pub_date.day > DateOf(start_date)

\* a Roskazna item the code can make a document of, dated on the day `day`:
\* it has title and description and its pubDate reads as that day
RoskaznaSoundOn(item, day) ==
    /\ item.lacks \in {"none", "link"}
    /\ parse_rss_date(item.pubDate, lc_time) # ParseFailed
    /\ DateOf(parse_rss_date(item.pubDate, lc_time)) = day

\* every news item fetched has a readable DT on or after the cutoff's date
AllNewsReadableAndFresh ==
    \A i \in DOMAIN FetchedItems(responses) :
        /\ fromisoformat(FetchedItems(responses)[i].DT) # ParseFailed
        /\ DateOf(fromisoformat(FetchedItems(responses)[i].DT)) >= DateOf(start_date)

\* the documents of the result dated on the cutoff's calendar date
OnCutoffDate == {j \in DOMAIN docs : docs[j].pub_date.day = DateOf(start_date)}

\* C24: get_latest_roskazna_docs and get_latest_cbr_news return the items
\* dated on the cutoff's calendar date, whatever the time of day of the
\* cutoff, and the date test rejects only strictly earlier dates: no
\* document returned is dated before the cutoff's date.
C24_BoundaryIncluded ==
    /\ (harvester = "roskazna" /\ Returned) =>
          /\ Cardinality(OnCutoffDate)
                = Cardinality({i \in DOMAIN responses[1].body :
                      RoskaznaSoundOn(responses[1].body[i], DateOf(start_date))})
          /\ \A j \in DOMAIN docs : docs[j].pub_date.day >= DateOf(start_date)
    /\ (harvester = "cbr_news" /\ Returned) =>
          /\ AllNewsReadableAndFresh =>
                Cardinality(OnCutoffDate)
                   = Cardinality({i \in DOMAIN FetchedItems(responses) :
                        DateOf(fromisoformat(FetchedItems(responses)[i].DT))
                           = DateOf(start_date)})
          /\ \A j \in DOMAIN docs : docs[j].pub_date.day >= DateOf(start_date)

\* C24 witness: Roskazna returns both items of a feed of two, each published
\* on the cutoff's date
C24_Witness ==
    /\ harvester = "roskazna"
    /\ Returned
    /\ Len(responses[1].body) = 2
    /\ OnCutoffDate = {1, 2}

\* C25: whatever the pages hold and whichever request fails, a call of
\* get_latest_cbr_news ends by returning a list, never by raising.
C25_NewsNeverRaises ==
    (harvester = "cbr_news" /\ Done) => (~raised /\ Returned)

RECURSIVE LongestFreshPrefix(_)
\* the documents of the longest prefix of `items` in which every item is
\* dated on or after the cutoff's date
LongestFreshPrefix(items) ==
    IF items = <<>> THEN <<>>
    ELSE IF DateOf(fromisoformat(Head(items).DT)) >= DateOf(start_date)
    THEN <<CbrNewsDocument(fromisoformat(Head(items).DT))>> \o LongestFreshPrefix(Tail(items))
    ELSE <<>>

\* C26: when no request failed and every DT is readable, the list
\* get_latest_cbr_news returns is the longest prefix of the pages fetched,
\* taken in page order, whose items are all dated on or after the cutoff;
\* the first older item is on the last page fetched.
C26_LongestFreshPrefix ==
    (/\ harvester = "cbr_news"
     /\ Returned
     /\ \A k \in DOMAIN responses : responses[k] \notin Failures
     /\ AllDatesReadable) =>
        /\ docs = LongestFreshPrefix(FetchedItems(responses))
        /\ \A k \in 1..(Len(responses) - 1) :
               Len(LongestFreshPrefix(responses[k].body)) = Len(responses[k].body)

\* C26 witness: a fresh first page, then a page with an older item followed
\* by a fresh one; only the item of the first page is returned
C26_Witness ==
    /\ harvester = "cbr_news"
    /\ Returned
    /\ Len(responses) = 2
    /\ responses[1].body = <<[DT |-> DateString("iso", 2)]>>
    /\ responses[2].body = <<[DT |-> DateString("iso", 0)], [DT |-> DateString("iso", 2)]>>
    /\ Len(docs) = 1

\* parse_single_document_entry gives None for the entry
KremlinEntryIsBroken(document_entry) == document_entry.lacks \in {"title", "href"}

\* the entries of the pages fetched that are not broken
KremlinSoundEntries ==
    {i \in DOMAIN FetchedItems(responses) : ~KremlinEntryIsBroken(FetchedItems(responses)[i])}

\* C27: in get_latest_kremlin_docs an entry without a title element, link
\* or href adds nothing to the result and every other entry fetched adds
\* its document; after a page that holds entries, broken ones included, the
\* page counter has advanced and the loop goes on to request the next page.
C27_PerEntryIsolation ==
    (harvester = "kremlin" /\ Len(responses) >= 1) =>
        /\ Len(docs) = Cardinality(KremlinSoundEntries)
        /\ \A j \in DOMAIN docs : docs[j] \in
               {parse_single_document_entry(FetchedItems(responses)[i])[1] :
                   i \in KremlinSoundEntries}
        /\ LET last == responses[Len(responses)]
           IN  (last.status = "ok" /\ last.body # <<>>) =>
                   /\ pc = "fetching"
                   /\ current_page = requests[Len(requests)] + 1

\* C27 witness: the first page holds an entry without a title and a sound
\* one; the sound one is in the result and the second page has been
\* requested
C27_Witness ==
    /\ harvester = "kremlin"
    /\ Len(requests) = 2
    /\ responses[1].body = <<[lacks |-> "title", day |-> 0], [lacks |-> "none", day |-> 2]>>
    /\ Len(docs) >= 1
    /\ docs[1] = parse_single_document_entry([lacks |-> "none", day |-> 2])[1]

====
